---- MODULE Spec2Model ----
(***************************************************************************)
(* Family-group membership and invitation subsystem of the recipe          *)
(* organizer backend (controllers/familyController.ts, models/FamilyGroup).*)
(* Spec runs every handler as one completed request; ConcSpec splits       *)
(* createFamilyGroup at its awaits so that two requests can interleave,    *)
(* LiveSpec is ConcSpec under a fair event loop, and RaceSpec splits the   *)
(* roster handlers at findById and save().                                 *)
(***************************************************************************)
EXTENDS Integers, Sequences, FiniteSets, TLC

\* ---------------------------------------------------------------- bounds
MaxGroups == 2
MaxOps == 5
MaxReqs == 2

\* ---------------------------------------------------------------- inputs
Users == {"A", "B"}
NoUser == "nobody"

\* e-mail addresses of the identity store, and one address nobody has
Emails == {"a@x", "b@x", "z@x"}

UserByEmail(email) ==
  CASE email = "a@x" -> "A"
    [] email = "b@x" -> "B"
    [] OTHER -> NoUser

\* invite codes as generated (upper case) and as typed by a joining user
Codes == {"K3J9", "QZ7M"}

\* what generateInviteCode() returns on the successive turns of the loop of
\* one completed createFamilyGroup
Draws == { <<"K3J9", "QZ7M">> }
TypedCodes == {"K3J9", "k3j9", "QZ7M", "qz7m", "ZZZZ"}

toUpperCase(s) ==
  CASE s = "k3j9" -> "K3J9"
    [] s = "qz7m" -> "QZ7M"
    [] OTHER -> s

Flags == {"allowMemberInvites", "requireApprovalForRecipes", "sharedPantry",
          "sharedMealPlans", "sharedShoppingLists"}

\* groups: the FamilyGroup collection, a group's _id is its index
\* now:    the clock read by new Date(); every saved request advances it
\* last:   the response of the last completed request
\* pre:    the collection as that request found it
\* left:   the groups whose creator's last change of their own entry was a
\*         successful leaveFamilyGroup (history, read by no handler)
\* reqs:   the requests in flight: createFamilyGroup under ConcSpec, the
\*         roster requests, each with its copy of the group, under RaceSpec
\* scen:   how many steps of the scenario "A creates, invites B, tries to
\*         step down, promotes B, steps down" the requests so far have been,
\*         -1 once they are another sequence (history, read by no handler)
VARIABLES groups, now, last, pre, left, reqs, scen

vars == <<groups, now, last, pre, left, reqs, scen>>

\* ---------------------------------------------------------------- schemas
\* the defaults written in createFamilyGroupSchema and in the literal of
\* createFamilyGroup
defaultSettings ==
  [allowMemberInvites |-> TRUE, requireApprovalForRecipes |-> FALSE,
   sharedPantry |-> TRUE, sharedMealPlans |-> TRUE,
   sharedShoppingLists |-> TRUE]

\* a settings object of a request body: the flags it gives, and their values
SettingsBodies ==
  { [given |-> {"allowMemberInvites"},
     val |-> [defaultSettings EXCEPT !.allowMemberInvites = FALSE]],
    [given |-> {"requireApprovalForRecipes", "sharedPantry"},
     val |-> [defaultSettings EXCEPT !.requireApprovalForRecipes = TRUE,
                                     !.sharedPantry = FALSE]] }

\* the keys of a request body that the schema does not name: none, or an
\* adminId and an inviteCode
NoOtherKeys == [given |-> {}, adminId |-> NoUser, inviteCode |-> ""]

OtherKeys == [given |-> {"adminId", "inviteCode"}, adminId |-> "B", inviteCode |-> "QZ7M"]

\* request bodies of updateFamilyGroup: settings optional
GroupBodies ==
  { [hasSettings |-> FALSE, settings |-> [given |-> {}, val |-> defaultSettings],
     other |-> o] : o \in {NoOtherKeys, OtherKeys} }
  \cup { [hasSettings |-> TRUE, settings |-> s, other |-> NoOtherKeys] :
           s \in SettingsBodies }

\* request bodies of createFamilyGroup: no settings, or one flag overridden
CreateBodies ==
  {b \in GroupBodies :
     /\ b.other = NoOtherKeys
     /\ ~b.hasSettings \/ b.settings.given = {"allowMemberInvites"}}

\* the schema handing on the keys it does not name
parseGroupBodyPassthrough(body) == body

\* updateFamilyGroupSchema.parse(req.body): z.object drops the keys the
\* schema does not name
parseGroupBody(body) == [body EXCEPT !.other = NoOtherKeys]

\* z.object({... z.boolean().default(d) ...}): a flag the body leaves out
\* gets its default
parseSettings(s) ==
  [f \in Flags |-> IF f \in s.given THEN s.val[f] ELSE defaultSettings[f]]

\* the spread written before the defaults: every override is lost
mergedSettingsDefaultsLast(body) == defaultSettings

\* { allowMemberInvites: true, ..., ...groupData.settings }
mergedSettings(body) ==
  IF body.hasSettings
    THEN [f \in Flags |-> parseSettings(body.settings)[f]]
    ELSE defaultSettings

\* request bodies of updateMember: role and isActive are both optional
MemberUpdates ==
  { [hasRole |-> TRUE, role |-> "member", hasActive |-> FALSE, isActive |-> TRUE],
    [hasRole |-> TRUE, role |-> "admin", hasActive |-> FALSE, isActive |-> TRUE],
    [hasRole |-> FALSE, role |-> "member", hasActive |-> TRUE, isActive |-> FALSE],
    [hasRole |-> FALSE, role |-> "member", hasActive |-> TRUE, isActive |-> TRUE] }

NoUpdate == [hasRole |-> FALSE, role |-> "member", hasActive |-> FALSE, isActive |-> TRUE]

\* ---------------------------------------------------------------- helpers
\* Array.prototype.find on the roster: the first entry of that user, 0 if none
findMember(members, userId) ==
  IF \E i \in DOMAIN members : members[i].userId = userId
    THEN CHOOSE i \in DOMAIN members :
           /\ members[i].userId = userId
           /\ \A j \in DOMAIN members : members[j].userId = userId => i <= j
    ELSE 0

isUserFamilyMember(userId, familyGroup) ==
  \E i \in DOMAIN familyGroup.members :
    familyGroup.members[i].userId = userId /\ familyGroup.members[i].isActive

\* the check that takes an active entry with role admin for the admin
isUserFamilyAdminByRole(userId, familyGroup) ==
  \E i \in DOMAIN familyGroup.members :
    /\ familyGroup.members[i].userId = userId
    /\ familyGroup.members[i].role = "admin"
    /\ familyGroup.members[i].isActive

\* the check that takes every active member for the admin
isUserFamilyAdminAnyMember(userId, familyGroup) ==
  isUserFamilyMember(userId, familyGroup)

isUserFamilyAdmin(userId, familyGroup) == familyGroup.adminId = userId

\* members.filter(m => m.role === 'admin' && m.isActive).length
adminCount(members) ==
  Cardinality({i \in DOMAIN members :
                 members[i].role = "admin" /\ members[i].isActive})

\* the query asking for an active admin entry instead of the adminId
findByActiveAdminEntry(gs, userId) ==
  LET hit(g) == \E i \in DOMAIN gs[g].members :
                  /\ gs[g].members[i].userId = userId
                  /\ gs[g].members[i].role = "admin"
                  /\ gs[g].members[i].isActive
  IN IF \E g \in DOMAIN gs : hit(g)
       THEN CHOOSE g \in DOMAIN gs : hit(g)
       ELSE 0

\* FamilyGroup.findOne({ adminId })
findByAdminId(gs, userId) ==
  IF \E g \in DOMAIN gs : gs[g].adminId = userId
    THEN CHOOSE g \in DOMAIN gs : gs[g].adminId = userId
    ELSE 0

\* FamilyGroup.findOne({ inviteCode })
findByInviteCode(gs, code) ==
  IF \E g \in DOMAIN gs : gs[g].inviteCode = code
    THEN CHOOSE g \in DOMAIN gs : gs[g].inviteCode = code
    ELSE 0

\* String(x) of a populated path: x is the User document that populate() put
\* in the place of the id, and the string of a document is its printed form
userDocument(userId) == "{ _id: " \o userId \o ", name, email }"

\* .populate('adminId', 'name email').populate('members.userId', 'name email')
\* as the comparisons written with toString() see the group afterwards
populate(familyGroup) ==
  [familyGroup EXCEPT
     !.adminId = userDocument(@),
     !.members = [i \in DOMAIN @ |-> [@[i] EXCEPT !.userId = userDocument(@)]]]

\* the last completed request and its response: the handler, the status,
\* req.user.id, the group it named, the member it looked up (NoUser when it
\* threw before the lookup), the body a saved request or a 400 answer was
\* decided on, and the userRole the response reports
Response(op, status, actor, gid, target, body, userRole) ==
  [op |-> op, status |-> status, actor |-> actor, gid |-> gid,
   target |-> target, body |-> body, userRole |-> userRole,
   isAdmin |-> FALSE, data |-> <<>>, slot |-> 0]

NoResponse == Response("none", 0, NoUser, 0, NoUser, NoUpdate, "none")

\* the creators whose own entry the saved request turned inactive by leaving,
\* kept until that entry changes again
leftAfter(op, actor, gid, newGroups) ==
  LET stays(g) ==
        /\ g \in left
        /\ g \in DOMAIN groups
        /\ newGroups[g].members[findMember(newGroups[g].members, newGroups[g].adminId)]
             = groups[g].members[findMember(groups[g].members, groups[g].adminId)]
  IN {g \in DOMAIN newGroups : stays(g)}
     \cup (IF op = "leaveFamilyGroup" /\ newGroups[gid].adminId = actor
            THEN {gid} ELSE {})

\* the k-th request of the scenario
scenarioStep(k, op, actor, gid, target, body) ==
  CASE k = 1 -> op = "createFamilyGroup" /\ actor = "A"
    [] k = 2 -> op = "inviteMember" /\ actor = "A" /\ gid = 1 /\ target = "B"
    [] k \in {3, 5} ->
         /\ op = "updateMember" /\ actor = "A" /\ gid = 1 /\ target = "A"
         /\ body = [hasRole |-> TRUE, role |-> "member",
                    hasActive |-> FALSE, isActive |-> TRUE]
    [] k = 4 ->
         /\ op = "updateMember" /\ actor = "A" /\ gid = 1 /\ target = "B"
         /\ body = [hasRole |-> TRUE, role |-> "admin",
                    hasActive |-> FALSE, isActive |-> TRUE]
    [] OTHER -> FALSE

\* the scenario goes one step on when the request is its next one
scenAfter(op, actor, gid, target, body) ==
  IF scen >= 0 /\ scenarioStep(scen + 1, op, actor, gid, target, body)
    THEN scen + 1
    ELSE -1

\* the client has the answer to its last request and sends the next one;
\* requests are followed until MaxOps of them have been saved
Sending == last.op = "none" /\ now < MaxOps

\* a request that throws: nothing is saved, the answer carries the error
Reject(op, status, actor, gid, target, body) ==
  /\ last' = Response(op, status, actor, gid, target, body, "none")
  /\ pre' = groups
  /\ scen' = scenAfter(op, actor, gid, target, body)
  /\ UNCHANGED <<groups, now, left, reqs>>

\* the isAdmin written in the data literal of a saving request's response:
\* true in createFamilyGroup, false in joinByInviteCode, the others have none
dataIsAdmin(op) == op = "createFamilyGroup"

\* a request that saves newGroups and answers
Accept(op, status, actor, gid, target, body, userRole, newGroups) ==
  /\ groups' = newGroups
  /\ now' = now + 1
  /\ last' = [Response(op, status, actor, gid, target, body, userRole)
                EXCEPT !.isAdmin = dataIsAdmin(op)]
  /\ pre' = groups
  /\ left' = leftAfter(op, actor, gid, newGroups)
  /\ scen' = scenAfter(op, actor, gid, target, body)
  /\ UNCHANGED reqs

\* a slot of the request table with no request in it
IdleReq ==
  [pc |-> "idle", userId |-> NoUser, inviteCode |-> "", status |-> 0, turn |-> 0]

Init ==
  /\ groups = <<>>
  /\ now = 0
  /\ last = NoResponse
  /\ pre = <<>>
  /\ left = {}
  /\ reqs = [r \in 1..MaxReqs |-> IdleReq]
  /\ scen = 0

\* the client receives the response; the next request can be sent
Respond ==
  /\ last.op # "none"
  /\ last' = NoResponse
  /\ pre' = <<>>
  /\ UNCHANGED <<groups, now, left, reqs, scen>>

\* ---------------------------------------------------------------- handlers
newFamilyGroup(userId, body, inviteCode, date) ==
  [adminId |-> userId,
   members |-> << [userId |-> userId, role |-> "admin",
                   joinedAt |-> date, isActive |-> TRUE] >>,
   inviteCode |-> inviteCode,
   settings |-> mergedSettings(body)]

\* newFamilyGroup.save() under the unique index of inviteCode: a document
\* whose code a stored group holds is refused (duplicate key)
insertGroupNoIndex(gs, doc) == Append(gs, doc)

insertGroup(gs, doc) ==
  IF \E g \in DOMAIN gs : gs[g].inviteCode = doc.inviteCode
    THEN gs
    ELSE Append(gs, doc)

\* the do/while of createFamilyGroup over the codes generateInviteCode()
\* returns one after the other: the index of the first code that no stored
\* group holds, 0 when every drawn code is taken (the loop goes on)
firstUnique(gs, draws) ==
  IF \E i \in DOMAIN draws : findByInviteCode(gs, draws[i]) = 0
    THEN CHOOSE i \in DOMAIN draws :
           /\ findByInviteCode(gs, draws[i]) = 0
           /\ \A j \in DOMAIN draws : findByInviteCode(gs, draws[j]) = 0 => i <= j
    ELSE 0

createFamilyGroup(userId, body, draws) ==
  Sending /\ (
  IF findByAdminId(groups, userId) # 0
    THEN Reject("createFamilyGroup", 409, userId, 0, NoUser, NoUpdate)
    ELSE /\ Len(groups) < MaxGroups
         /\ firstUnique(groups, draws) # 0
         /\ Accept("createFamilyGroup", 201, userId, Len(groups) + 1, NoUser,
                   body, "admin",
                   insertGroup(groups,
                     newFamilyGroup(userId, body,
                                    draws[firstUnique(groups, draws)], now)))
  )

\* the lookup of the inviting member without "&& member.isActive"
findActiveMemberAnyEntry(members, userId) == findMember(members, userId)

\* familyGroup.members.find(m => m.userId === userId && m.isActive)
findActiveMember(members, userId) ==
  IF \E i \in DOMAIN members : members[i].userId = userId /\ members[i].isActive
    THEN CHOOSE i \in DOMAIN members :
           /\ members[i].userId = userId /\ members[i].isActive
           /\ \A j \in DOMAIN members :
                (members[j].userId = userId /\ members[j].isActive) => i <= j
    ELSE 0

\* existingMember.isActive = true; existingMember.joinedAt = new Date()
reactivate(member, date) ==
  [member EXCEPT !.isActive = TRUE, !.joinedAt = date]

\* unshift instead of push: the new entry goes in front
pushMemberInFront(members, userId, date) ==
  << [userId |-> userId, role |-> "member", joinedAt |-> date, isActive |-> TRUE] >>
    \o members

\* members.push({ userId, role: 'member', joinedAt: new Date(), isActive: true })
pushMember(members, userId, date) ==
  Append(members, [userId |-> userId, role |-> "member",
                   joinedAt |-> date, isActive |-> TRUE])

inviteMember(actor, gid, email) ==
  Sending /\ (
  LET op == "inviteMember"
      invitee == UserByEmail(email)
  IN
  IF gid \notin DOMAIN groups
    THEN Reject(op, 404, actor, gid, NoUser, NoUpdate)
    ELSE
  LET members == groups[gid].members
      userMember == findActiveMember(members, actor)
      existingMember == findMember(members, invitee)
  IN
  IF userMember = 0
    THEN Reject(op, 403, actor, gid, NoUser, NoUpdate)
  ELSE IF members[userMember].role # "admin"
          /\ ~groups[gid].settings.allowMemberInvites
    THEN Reject(op, 403, actor, gid, NoUser, NoUpdate)
  ELSE IF invitee = NoUser
    THEN Reject(op, 404, actor, gid, invitee, NoUpdate)
  ELSE IF existingMember # 0 /\ members[existingMember].isActive
    THEN Reject(op, 409, actor, gid, invitee, NoUpdate)
  ELSE IF existingMember # 0
    THEN Accept(op, 200, actor, gid, invitee, NoUpdate, "none",
                [groups EXCEPT ![gid].members[existingMember] =
                   reactivate(members[existingMember], now)])
  ELSE Accept(op, 200, actor, gid, invitee, NoUpdate, "none",
              [groups EXCEPT ![gid].members = pushMember(members, invitee, now)])
  )

\* the group is loaded with its adminId and members.userId populated, and the
\* roster is searched after that
joinByInviteCode(actor, typed) ==
  Sending /\ (
  LET op == "joinByInviteCode"
      gid == findByInviteCode(groups, toUpperCase(typed))
  IN
  IF gid = 0
    THEN Reject(op, 404, actor, 0, actor, NoUpdate)
    ELSE
  LET members == groups[gid].members
      existingMember == findMember(populate(groups[gid]).members, actor)
  IN
  IF existingMember # 0 /\ members[existingMember].isActive
    THEN Reject(op, 409, actor, gid, actor, NoUpdate)
  ELSE IF existingMember # 0
    THEN Accept(op, 200, actor, gid, actor, NoUpdate, "member",
                [groups EXCEPT ![gid].members[existingMember] =
                   reactivate(members[existingMember], now)])
  ELSE Accept(op, 200, actor, gid, actor, NoUpdate, "member",
              [groups EXCEPT ![gid].members = pushMember(members, actor, now)])
  )

\* Object.assign(member, updates): only the keys the body carries are written
assignMember(member, updates) ==
  [member EXCEPT
     !.role = IF updates.hasRole THEN updates.role ELSE @,
     !.isActive = IF updates.hasActive THEN updates.isActive ELSE @]

\* updateMember without its guard
demotesLastAdminNever(actor, members, i, updates) == FALSE

\* the guard of updateMember that answers 400
demotesLastAdmin(actor, members, i, updates) ==
  /\ members[i].userId = actor
  /\ updates.hasRole /\ updates.role = "member"
  /\ adminCount(members) <= 1

updateMember(actor, gid, memberId, updates) ==
  Sending /\ (
  LET op == "updateMember" IN
  IF gid \notin DOMAIN groups
    THEN Reject(op, 404, actor, gid, NoUser, NoUpdate)
    ELSE
  LET members == groups[gid].members
      member == findMember(members, memberId)
  IN
  IF ~isUserFamilyAdmin(actor, groups[gid])
    THEN Reject(op, 403, actor, gid, NoUser, NoUpdate)
  ELSE IF member = 0
    THEN Reject(op, 404, actor, gid, memberId, NoUpdate)
  ELSE IF demotesLastAdmin(actor, members, member, updates)
    THEN Reject(op, 400, actor, gid, memberId, updates)
  ELSE Accept(op, 200, actor, gid, memberId, updates, "none",
              [groups EXCEPT ![gid].members[member] =
                 assignMember(members[member], updates)])
  )

\* the comparison written < 1 instead of <= 1
isLastAdminOffByOne(members, i) ==
  members[i].role = "admin" /\ adminCount(members) < 1

\* the guard of removeMember and leaveFamilyGroup that answers 400
isLastAdmin(members, i) ==
  members[i].role = "admin" /\ adminCount(members) <= 1

\* the deactivation that also resets the role
deactivateErasingRole(member) ==
  [member EXCEPT !.isActive = FALSE, !.role = "member"]

\* member.isActive = false
deactivate(member) == [member EXCEPT !.isActive = FALSE]

removeMember(actor, gid, memberId) ==
  Sending /\ (
  LET op == "removeMember" IN
  IF gid \notin DOMAIN groups
    THEN Reject(op, 404, actor, gid, NoUser, NoUpdate)
    ELSE
  LET members == groups[gid].members
      member == findMember(members, memberId)
      isAdmin == isUserFamilyAdmin(actor, groups[gid])
      isSelf == actor = memberId
  IN
  IF member = 0
    THEN Reject(op, 404, actor, gid, memberId, NoUpdate)
  ELSE IF ~isAdmin /\ ~isSelf
    THEN Reject(op, 403, actor, gid, memberId, NoUpdate)
  ELSE IF isLastAdmin(members, member)
    THEN Reject(op, 400, actor, gid, memberId, NoUpdate)
  ELSE Accept(op, 200, actor, gid, memberId, NoUpdate, "none",
              [groups EXCEPT ![gid].members[member] = deactivate(members[member])])
  )

leaveFamilyGroup(actor, gid) ==
  Sending /\ (
  LET op == "leaveFamilyGroup" IN
  IF gid \notin DOMAIN groups
    THEN Reject(op, 404, actor, gid, actor, NoUpdate)
    ELSE
  LET members == groups[gid].members
      member == findMember(members, actor)
  IN
  IF member = 0 \/ ~members[member].isActive
    THEN Reject(op, 404, actor, gid, actor, NoUpdate)
  ELSE IF isLastAdmin(members, member)
    THEN Reject(op, 400, actor, gid, actor, NoUpdate)
  ELSE Accept(op, 200, actor, gid, actor, NoUpdate, "none",
              [groups EXCEPT ![gid].members[member] = deactivate(members[member])])
  )

\* updateFamilyGroupSchema.parse(req.body), then Object.assign(familyGroup, updates)
assignGroup(familyGroup, updates) ==
  [familyGroup EXCEPT
     !.settings = IF updates.hasSettings THEN parseSettings(updates.settings) ELSE @,
     !.adminId = IF "adminId" \in updates.other.given THEN updates.other.adminId ELSE @,
     !.inviteCode = IF "inviteCode" \in updates.other.given
                      THEN updates.other.inviteCode ELSE @]

updateFamilyGroup(actor, gid, body) ==
  Sending /\ (
  LET op == "updateFamilyGroup" IN
  IF gid \notin DOMAIN groups
    THEN Reject(op, 404, actor, gid, NoUser, NoUpdate)
  ELSE IF ~isUserFamilyAdmin(actor, groups[gid])
    THEN Reject(op, 403, actor, gid, NoUser, NoUpdate)
  ELSE Accept(op, 200, actor, gid, NoUser, body, "none",
              [groups EXCEPT ![gid] = assignGroup(groups[gid], parseGroupBody(body))])
  )

\* catch (error) { throw new ApiError('Failed to fetch family group', 500) }:
\* whatever the try block threw, its own ApiError included, leaves as a 500
catchOfGetFamilyGroupById(status) == 500

\* a request that reads and answers
Answer(op, status, actor, gid, target, body, userRole, isAdmin, data) ==
  /\ last' = [Response(op, status, actor, gid, target, body, userRole)
                EXCEPT !.isAdmin = isAdmin, !.data = data]
  /\ pre' = groups
  /\ scen' = scenAfter(op, actor, gid, target, body)
  /\ UNCHANGED <<groups, now, left, reqs>>

getFamilyGroupById(actor, gid) ==
  Sending /\ (
  LET op == "getFamilyGroupById" IN
  IF gid \notin DOMAIN groups
    THEN Reject(op, catchOfGetFamilyGroupById(404), actor, gid, NoUser, NoUpdate)
    ELSE
  LET familyGroup == populate(groups[gid])
      userMember == findMember(familyGroup.members, actor)
  IN
  IF ~isUserFamilyMember(actor, familyGroup)
    THEN Reject(op, catchOfGetFamilyGroupById(403), actor, gid, NoUser, NoUpdate)
    ELSE Answer(op, 200, actor, gid, actor, NoUpdate,
                IF userMember = 0 THEN "none"
                                  ELSE familyGroup.members[userMember].role,
                familyGroup.adminId = actor, <<>>)
  )

\* FamilyGroup.find({'members.userId': id, 'members.isActive': true}): each
\* condition is met by some entry of the roster, not by one and the same
findByMember(gs, userId) ==
  {g \in DOMAIN gs :
     /\ \E i \in DOMAIN gs[g].members : gs[g].members[i].userId = userId
     /\ \E i \in DOMAIN gs[g].members : gs[g].members[i].isActive}

\* one element of groupsWithRole: userRole and isAdmin are read from the
\* populated document
withRole(familyGroup, userId) ==
  LET userMember == findMember(familyGroup.members, userId) IN
  [userRole |-> IF userMember = 0 THEN "none"
                                  ELSE familyGroup.members[userMember].role,
   isAdmin |-> familyGroup.adminId = userId]

getUserFamilyGroups(actor) ==
  Sending /\ (
  LET userFamilyGroups == findByMember(groups, actor) IN
  Answer("getUserFamilyGroups", 200, actor, 0, NoUser, NoUpdate, "none", FALSE,
         [g \in userFamilyGroups |-> withRole(populate(groups[g]), actor)])
  )

GroupIds == 1..MaxGroups

Next ==
  \/ Respond
  \/ \E u \in Users, body \in CreateBodies, draws \in Draws :
       createFamilyGroup(u, body, draws)
  \/ \E u \in Users, g \in GroupIds, body \in GroupBodies : updateFamilyGroup(u, g, body)
  \/ \E u \in Users, g \in GroupIds, e \in Emails : inviteMember(u, g, e)
  \/ \E u \in Users, c \in TypedCodes : joinByInviteCode(u, c)
  \/ \E u \in Users, g \in GroupIds, m \in Users, upd \in MemberUpdates :
       updateMember(u, g, m, upd)
  \/ \E u \in Users, g \in GroupIds, m \in Users : removeMember(u, g, m)
  \/ \E u \in Users, g \in GroupIds : leaveFamilyGroup(u, g)
  \/ \E u \in Users, g \in GroupIds : getFamilyGroupById(u, g)
  \/ \E u \in Users : getUserFamilyGroups(u)

Spec == Init /\ [][Next]_vars

\* ------------------------------------------- createFamilyGroup, await by await
\* Two requests interleave at the awaits of createFamilyGroup: the findOne by
\* adminId, the findOne by inviteCode of every turn of the loop, and the save.
NoSettingsBody ==
  [hasSettings |-> FALSE, settings |-> [given |-> {}, val |-> defaultSettings],
   other |-> NoOtherKeys]

Slots == 1..MaxReqs

setReq(r, req) ==
  /\ reqs' = [reqs EXCEPT ![r] = req]
  /\ UNCHANGED <<last, pre, left, scen>>

\* the requests between arrival and response
inFlight == {r \in Slots : reqs[r].pc \notin {"idle", "done"}}

\* the request arrives and its body is parsed; the requests in flight never
\* outnumber the groups that can still be stored or the codes still free
createStart(r, userId) ==
  /\ reqs[r].pc = "idle"
  /\ Len(groups) + Cardinality(inFlight) < MaxGroups
  /\ Len(groups) + Cardinality(inFlight) < Cardinality(Codes)
  /\ now + Cardinality(inFlight) < MaxOps
  /\ setReq(r, [IdleReq EXCEPT !.pc = "findAdmin", !.userId = userId])
  /\ UNCHANGED <<groups, now>>

\* await FamilyGroup.findOne({ adminId: req.user.id })
createFindAdmin(r) ==
  /\ reqs[r].pc = "findAdmin"
  /\ IF findByAdminId(groups, reqs[r].userId) # 0
       THEN setReq(r, [reqs[r] EXCEPT !.pc = "done", !.status = 409])
       ELSE setReq(r, [reqs[r] EXCEPT !.pc = "generate"])
  /\ UNCHANGED <<groups, now>>

\* one turn of the loop: generateInviteCode(), await findOne({ inviteCode });
\* while (existingGroup) takes the next turn, and nothing counts the turns
\* (turn is their parity)
createCheckCode(r) ==
  /\ reqs[r].pc = "generate"
  /\ \E inviteCode \in Codes :
       IF findByInviteCode(groups, inviteCode) = 0
         THEN setReq(r, [reqs[r] EXCEPT !.pc = "save", !.inviteCode = inviteCode])
         ELSE setReq(r, [reqs[r] EXCEPT !.inviteCode = inviteCode,
                                        !.turn = 1 - @])
  /\ UNCHANGED <<groups, now>>

\* a save that is tried again after the duplicate key error
saveOutcomeRetrying(req, saved) ==
  IF saved THEN [req EXCEPT !.pc = "done", !.status = 201]
           ELSE [req EXCEPT !.turn = 1 - @]

\* the request after await newFamilyGroup.save(): 201, or the duplicate key
\* error thrown on to the error handler
saveOutcome(req, saved) ==
  [req EXCEPT !.pc = "done", !.status = IF saved THEN 201 ELSE 500]

\* await newFamilyGroup.save(): the insert, or the duplicate key error
createSave(r) ==
  LET doc == newFamilyGroup(reqs[r].userId, NoSettingsBody, reqs[r].inviteCode, now)
      saved == insertGroup(groups, doc)
  IN
  /\ reqs[r].pc = "save"
  /\ IF saved = groups
       THEN /\ setReq(r, saveOutcome(reqs[r], FALSE))
            /\ UNCHANGED <<groups, now>>
       ELSE /\ groups' = saved
            /\ now' = now + 1
            /\ setReq(r, saveOutcome(reqs[r], TRUE))

\* the response is sent, the slot is free again
createRespond(r) ==
  /\ reqs[r].pc = "done"
  /\ setReq(r, IdleReq)
  /\ UNCHANGED <<groups, now>>

ConcNext ==
  \/ \E r \in Slots, u \in Users : createStart(r, u)
  \/ \E r \in Slots : createFindAdmin(r)
  \/ \E r \in Slots : createCheckCode(r)
  \/ \E r \in Slots : createSave(r)
  \/ \E r \in Slots : createRespond(r)

ConcSpec == Init /\ [][ConcNext]_vars

\* every await of a request in flight resolves: the event loop runs each
\* continuation, the database answers each query
LiveSpec ==
  /\ ConcSpec
  /\ \A r \in Slots :
       /\ WF_vars(createFindAdmin(r))
       /\ WF_vars(createCheckCode(r))
       /\ WF_vars(createSave(r))
       /\ WF_vars(createRespond(r))

\* ------------------------------------- roster requests, load and save apart
\* Two requests on one group interleave at their awaits: findById hands each
\* its own copy of the document, the checks and the changes are made on the
\* copy, and save() writes the changes of the copy to the stored document.
Racers == {1, 2}

\* the stored group when the requests arrive: created by A, B invited (or
\* not), promoted (or not), deactivated (or not)
rosterOf(bRole, bActive) ==
  << [userId |-> "A", role |-> "admin", joinedAt |-> 0, isActive |-> TRUE],
     [userId |-> "B", role |-> bRole, joinedAt |-> 1, isActive |-> bActive] >>

groupOf(members) ==
  [adminId |-> "A", members |-> members, inviteCode |-> "K3J9",
   settings |-> defaultSettings]

\* the saves that stored it
savesOf(members) ==
  IF Len(members) = 1 THEN 1
  ELSE 2 + (IF members[2].role = "admin" THEN 1 ELSE 0)
         + (IF members[2].isActive THEN 0 ELSE 1)

NoGroup == groupOf(<<>>)

RaceIdle ==
  [pc |-> "idle", op |-> "none", actor |-> NoUser, target |-> NoUser,
   body |-> NoUpdate, copy |-> NoGroup, doc |-> NoGroup, status |-> 0]

RaceInit ==
  /\ \E members \in {SubSeq(rosterOf("member", TRUE), 1, 1)}
                     \cup {rosterOf(role, active) :
                             role \in {"member", "admin"}, active \in BOOLEAN} :
       /\ groups = << groupOf(members) >>
       /\ now = savesOf(members)
  /\ last = NoResponse
  /\ pre = <<>>
  /\ left = {}
  /\ reqs = [r \in 1..MaxReqs |-> RaceIdle]
  /\ scen = -1

racing == {r \in Racers : reqs[r].pc \in {"load", "save"}}

\* a step of a request that is not its save
raceStep(r, req) ==
  /\ reqs' = [reqs EXCEPT ![r] = req]
  /\ last' = NoResponse
  /\ pre' = <<>>
  /\ UNCHANGED <<groups, now, left, scen>>

\* the request arrives
raceStart(r, op, actor, target, body) ==
  /\ reqs[r].pc = "idle"
  /\ now + Cardinality(racing) < MaxOps
  /\ raceStep(r, [RaceIdle EXCEPT !.pc = "load", !.op = op, !.actor = actor,
                                  !.target = target, !.body = body])

\* what a handler answers and does to its copy between findById and save()
thrown(status, familyGroup) == [status |-> status, doc |-> familyGroup]

changed(familyGroup, members) ==
  [status |-> 200, doc |-> [familyGroup EXCEPT !.members = members]]

inviteOnCopy(familyGroup, actor, invitee, date) ==
  LET members == familyGroup.members
      userMember == findActiveMember(members, actor)
      existingMember == findMember(members, invitee)
  IN
  IF userMember = 0
    THEN thrown(403, familyGroup)
  ELSE IF members[userMember].role # "admin"
          /\ ~familyGroup.settings.allowMemberInvites
    THEN thrown(403, familyGroup)
  ELSE IF invitee = NoUser
    THEN thrown(404, familyGroup)
  ELSE IF existingMember # 0 /\ members[existingMember].isActive
    THEN thrown(409, familyGroup)
  ELSE IF existingMember # 0
    THEN changed(familyGroup,
                 [members EXCEPT ![existingMember] = reactivate(@, date)])
  ELSE changed(familyGroup, pushMember(members, invitee, date))

updateOnCopy(familyGroup, actor, memberId, updates) ==
  LET members == familyGroup.members
      member == findMember(members, memberId)
  IN
  IF ~isUserFamilyAdmin(actor, familyGroup)
    THEN thrown(403, familyGroup)
  ELSE IF member = 0
    THEN thrown(404, familyGroup)
  ELSE IF demotesLastAdmin(actor, members, member, updates)
    THEN thrown(400, familyGroup)
  ELSE changed(familyGroup,
               [members EXCEPT ![member] = assignMember(@, updates)])

removeOnCopy(familyGroup, actor, memberId) ==
  LET members == familyGroup.members
      member == findMember(members, memberId)
  IN
  IF member = 0
    THEN thrown(404, familyGroup)
  ELSE IF ~isUserFamilyAdmin(actor, familyGroup) /\ actor # memberId
    THEN thrown(403, familyGroup)
  ELSE IF isLastAdmin(members, member)
    THEN thrown(400, familyGroup)
  ELSE changed(familyGroup, [members EXCEPT ![member] = deactivate(@)])

leaveOnCopy(familyGroup, actor) ==
  LET members == familyGroup.members
      member == findMember(members, actor)
  IN
  IF member = 0 \/ ~members[member].isActive
    THEN thrown(404, familyGroup)
  ELSE IF isLastAdmin(members, member)
    THEN thrown(400, familyGroup)
  ELSE changed(familyGroup, [members EXCEPT ![member] = deactivate(@)])

onCopy(req, familyGroup, date) ==
  CASE req.op = "inviteMember" -> inviteOnCopy(familyGroup, req.actor, req.target, date)
    [] req.op = "updateMember" ->
         updateOnCopy(familyGroup, req.actor, req.target, req.body)
    [] req.op = "removeMember" -> removeOnCopy(familyGroup, req.actor, req.target)
    [] OTHER -> leaveOnCopy(familyGroup, req.actor)

\* await FamilyGroup.findById(id), the checks and the changes on the copy; a
\* thrown ApiError is the response
raceLoad(r) ==
  LET handled == onCopy(reqs[r], groups[1], now) IN
  /\ reqs[r].pc = "load"
  /\ IF handled.status = 200
       THEN raceStep(r, [reqs[r] EXCEPT !.pc = "save", !.copy = groups[1],
                                       !.doc = handled.doc])
       ELSE raceStep(r, [reqs[r] EXCEPT !.pc = "done", !.status = handled.status])

\* the paths of the roster that the request modified on its copy
MemberPaths == {"userId", "role", "joinedAt", "isActive"}

modifiedPaths(copy, doc) ==
  {path \in (DOMAIN copy.members) \X MemberPaths :
     doc.members[path[1]][path[2]] # copy.members[path[1]][path[2]]}

pushed(copy, doc) ==
  SubSeq(doc.members, Len(copy.members) + 1, Len(doc.members))

\* the version key __v of a stored group: 0 when created, one more with
\* every saved push; entries are never taken out of the roster
versionOf(familyGroup) == Len(familyGroup.members) - 1

\* save() that replaces the stored document by the copy
saveWholeDocument(stored, copy, doc) == [ok |-> TRUE, stored |-> doc]

\* save() where every save asks for the loaded version and increments it
saveOptimistic(stored, copy, doc) ==
  IF stored # copy /\ doc # copy
    THEN [ok |-> FALSE, stored |-> stored]
    ELSE [ok |-> TRUE, stored |-> doc]

\* familyGroup.save(): an update of the modified paths only. A $set under
\* members.<i> asks for the version that was loaded (VersionError when a
\* push was saved since), a $push asks for nothing and increments it.
save(stored, copy, doc) ==
  LET sets == modifiedPaths(copy, doc) IN
  IF sets # {} /\ versionOf(stored) # versionOf(copy)
    THEN [ok |-> FALSE, stored |-> stored]
    ELSE [ok |-> TRUE,
          stored |-> [stored EXCEPT !.members =
                        [i \in DOMAIN stored.members |->
                           [f \in MemberPaths |->
                              IF <<i, f>> \in sets THEN doc.members[i][f]
                                                  ELSE stored.members[i][f]]]
                        \o pushed(copy, doc)]]

\* await familyGroup.save(), then res.json; a VersionError is thrown on
raceSave(r) ==
  LET saved == save(groups[1], reqs[r].copy, reqs[r].doc)
      status == IF saved.ok THEN 200 ELSE 500
  IN
  /\ reqs[r].pc = "save"
  /\ groups' = [groups EXCEPT ![1] = saved.stored]
  /\ now' = IF saved.ok THEN now + 1 ELSE now
  /\ reqs' = [reqs EXCEPT ![r] = [@ EXCEPT !.pc = "done", !.status = status]]
  /\ last' = [Response(reqs[r].op, status, reqs[r].actor, 1, reqs[r].target,
                       reqs[r].body, "none") EXCEPT !.slot = r]
  /\ pre' = groups
  /\ UNCHANGED <<left, scen>>

\* the response is sent, the slot is free again
raceRespond(r) ==
  /\ reqs[r].pc = "done"
  /\ raceStep(r, RaceIdle)

RaceNext ==
  \/ \E r \in Racers, u \in Users, e \in Emails :
       raceStart(r, "inviteMember", u, UserByEmail(e), NoUpdate)
  \/ \E r \in Racers, u \in Users, m \in Users, upd \in MemberUpdates :
       raceStart(r, "updateMember", u, m, upd)
  \/ \E r \in Racers, u \in Users, m \in Users :
       raceStart(r, "removeMember", u, m, NoUpdate)
  \/ \E r \in Racers, u \in Users :
       raceStart(r, "leaveFamilyGroup", u, u, NoUpdate)
  \/ \E r \in Racers : raceLoad(r)
  \/ \E r \in Racers : raceSave(r)
  \/ \E r \in Racers : raceRespond(r)

RaceSpec == RaceInit /\ [][RaceNext]_vars

\* ------------------------------------------------------------- properties
\* the users holding an active admin entry of a roster
activeAdmins(members) ==
  {members[i].userId : i \in {j \in DOMAIN members :
                                members[j].role = "admin" /\ members[j].isActive}}

\* userId holds the only active admin entry of the roster
onlyActiveAdmin(members, userId) == activeAdmins(members) = {userId}

\* the request of the last response was about a stored group
aboutGroup == last.gid \in DOMAIN pre

\* C1: every stored family group has a roster entry with role admin and
\* isActive true, whatever completed requests came before.
AlwaysAnActiveAdmin ==
  \A g \in DOMAIN groups : activeAdmins(groups[g].members) # {}

\* C2: updateMember with role member, sent by the adminId user for the only
\* active admin of the group, is answered 400 and the collection is unchanged.
DemotingOnlyAdminRejected ==
  ( /\ last.op = "updateMember"
    /\ aboutGroup
    /\ last.actor = pre[last.gid].adminId
    /\ last.body.hasRole /\ last.body.role = "member"
    /\ onlyActiveAdmin(pre[last.gid].members, last.target) )
  => (last.status = 400 /\ groups = pre)

\* C3: updateMember with isActive false, sent by the adminId user for the
\* only active admin of the group, is rejected and the collection is unchanged.
DeactivatingOnlyAdminRejected ==
  ( /\ last.op = "updateMember"
    /\ aboutGroup
    /\ last.actor = pre[last.gid].adminId
    /\ last.body.hasActive /\ ~last.body.isActive
    /\ onlyActiveAdmin(pre[last.gid].members, last.target) )
  => (last.status # 200 /\ groups = pre)

\* C4: removeMember for the only active admin of a group, sent by the adminId
\* user or by the target, is answered 400 and the collection is unchanged.
RemovingOnlyAdminRejected ==
  ( /\ last.op = "removeMember"
    /\ aboutGroup
    /\ onlyActiveAdmin(pre[last.gid].members, last.target)
    /\ (last.actor = pre[last.gid].adminId \/ last.actor = last.target) )
  => (last.status = 400 /\ groups = pre)

\* C4 witness: the adminId user asked to remove another user, who was the
\* only active admin, and got 400.
RemoveOnlyAdminByOwnerSeen ==
  /\ last.op = "removeMember"
  /\ last.status = 400
  /\ aboutGroup
  /\ onlyActiveAdmin(pre[last.gid].members, last.target)
  /\ last.actor = pre[last.gid].adminId
  /\ last.actor # last.target

\* the actor of the last request had an active entry in the group it named
actorWasActive ==
  /\ aboutGroup
  /\ \E i \in DOMAIN pre[last.gid].members :
       /\ pre[last.gid].members[i].userId = last.actor
       /\ pre[last.gid].members[i].isActive

\* the collection differs from gs in one active entry of the actor in that
\* group, which is inactive now
oneEntryOfActorInactive(gs, gid, actor) ==
  \E i \in DOMAIN gs[gid].members :
    /\ gs[gid].members[i].userId = actor
    /\ gs[gid].members[i].isActive
    /\ groups = [gs EXCEPT ![gid].members[i].isActive = FALSE]

\* C5: leaveFamilyGroup answers 200 exactly when the actor has an active entry
\* and is not the only active admin, and then only the actor's entry changes,
\* to inactive; without an active entry it answers 404, for the only active
\* admin 400, both with the collection unchanged.
LeaveOutcome ==
  last.op = "leaveFamilyGroup" =>
    LET sole == actorWasActive /\ onlyActiveAdmin(pre[last.gid].members, last.actor)
    IN /\ (last.status = 200) <=> (actorWasActive /\ ~sole)
       /\ last.status = 200 => oneEntryOfActorInactive(pre, last.gid, last.actor)
       /\ ~actorWasActive => (last.status = 404 /\ groups = pre)
       /\ sole => (last.status = 400 /\ groups = pre)

\* C6: two distinct stored groups never hold the same inviteCode, also when
\* two createFamilyGroup requests pass the existence check with one code
\* before either saves.
InviteCodesUnique ==
  \A g, h \in DOMAIN groups : g # h => groups[g].inviteCode # groups[h].inviteCode

\* C6 witness: a save was refused for a code that a group saved in the
\* meantime holds.
DuplicateCodeRefusedSeen ==
  \E r \in Slots :
    /\ reqs[r].pc = "done"
    /\ reqs[r].status = 500
    /\ \E g \in DOMAIN groups : groups[g].inviteCode = reqs[r].inviteCode

\* the default of a settings flag, as the schema states it
defaultOf(flag) == flag # "requireApprovalForRecipes"

\* C7: a createFamilyGroup answered 201 appends one group: adminId the caller,
\* a roster of exactly the caller as active admin, every flag the override
\* when the body gives one and its default otherwise; the groups stored
\* before are unchanged.
CreateAddsOneGroup ==
  (last.op = "createFamilyGroup" /\ last.status = 201) =>
    /\ Len(groups) = Len(pre) + 1
    /\ SubSeq(groups, 1, Len(pre)) = pre
    /\ last.gid = Len(groups)
    /\ LET g == groups[Len(groups)] IN
         /\ g.adminId = last.actor
         /\ Len(g.members) = 1
         /\ g.members[1].userId = last.actor
         /\ g.members[1].role = "admin"
         /\ g.members[1].isActive
         /\ \A f \in Flags :
              g.settings[f] =
                IF last.body.hasSettings /\ f \in last.body.settings.given
                  THEN last.body.settings.val[f]
                  ELSE defaultOf(f)

\* C7 witness: a second group was created with an overridden flag.
CreateWithOverrideSeen ==
  /\ last.op = "createFamilyGroup"
  /\ last.status = 201
  /\ Len(pre) = 1
  /\ last.body.hasSettings
  /\ ~groups[last.gid].settings.allowMemberInvites

\* C8: createFamilyGroup by the adminId user of a stored group is answered
\* 409 and the collection is unchanged.
SecondCreateConflict ==
  ( /\ last.op = "createFamilyGroup"
    /\ \E g \in DOMAIN pre : pre[g].adminId = last.actor )
  => (last.status = 409 /\ groups = pre)

\* C8 witness: a second createFamilyGroup of a creator was answered 409.
SecondCreateRefusedSeen ==
  /\ last.op = "createFamilyGroup"
  /\ last.status = 409
  /\ \E g \in DOMAIN pre : pre[g].adminId = last.actor

\* C9: once the creator of a group has left it with leaveFamilyGroup and the
\* entry is still inactive, createFamilyGroup by that user is answered 201.
CreatorWhoLeftCanCreate ==
  ( /\ last.op = "createFamilyGroup"
    /\ \E g \in DOMAIN pre : pre[g].adminId = last.actor
    /\ \A g \in DOMAIN pre :
         pre[g].adminId = last.actor =>
           (g \in left /\ ~isUserFamilyMember(last.actor, pre[g])) )
  => last.status = 201

\* C10: after a joinByInviteCode answered 200 the joining user's entry has
\* role member, the role the response reports.
JoinedEntryIsMember ==
  (last.op = "joinByInviteCode" /\ last.status = 200) =>
    \A i \in DOMAIN groups[last.gid].members :
      groups[last.gid].members[i].userId = last.actor =>
        (groups[last.gid].members[i].role = "member" /\ last.userRole = "member")

\* the roster has no entry of that user
noEntry(members, userId) == \A i \in DOMAIN members : members[i].userId # userId

\* the roster has an entry of that user and it is inactive
inactiveEntry(members, userId) ==
  \E i \in DOMAIN members : members[i].userId = userId /\ ~members[i].isActive

\* what new Date() returned to the saved request of the last response
savedAt == now - 1

\* C11: joinByInviteCode with the code of a stored group, by a user without an
\* entry in its roster, is answered 200 and appends one entry at the end of
\* that roster: that user, role member, active; every other entry and every
\* other group is unchanged.
JoinAppendsOneMember ==
  ( /\ last.op = "joinByInviteCode"
    /\ aboutGroup
    /\ noEntry(pre[last.gid].members, last.actor) )
  => /\ last.status = 200
     /\ groups = [pre EXCEPT ![last.gid].members =
                    Append(@, [userId |-> last.actor, role |-> "member",
                               joinedAt |-> savedAt, isActive |-> TRUE])]

\* C11 witness: with two groups stored, a user joined the group of the other.
JoinBesideOtherGroupSeen ==
  /\ last.op = "joinByInviteCode"
  /\ last.status = 200
  /\ Len(pre) = 2
  /\ noEntry(pre[last.gid].members, last.actor)
  /\ Len(groups[last.gid].members) = 2

\* C12: inviteMember for, or joinByInviteCode by, a user whose entry in the
\* group is inactive is answered 200, sets that entry active, adds no entry
\* and leaves the entries of other users as they were.
ReactivationKeepsRoster ==
  ( /\ last.op \in {"inviteMember", "joinByInviteCode"}
    /\ aboutGroup
    /\ inactiveEntry(pre[last.gid].members, last.target) )
  => LET old == pre[last.gid].members
         new == groups[last.gid].members
     IN /\ last.status = 200
        /\ Len(new) = Len(old)
        /\ \A i \in DOMAIN old :
             IF old[i].userId = last.target
               THEN /\ new[i].userId = last.target
                    /\ new[i].role = old[i].role
                    /\ new[i].isActive
               ELSE new[i] = old[i]

\* C13: inviteMember for, or joinByInviteCode by, a user with an active entry
\* in the group is answered 409 and the collection is unchanged (for
\* inviteMember: once the actor has passed the permission checks).
ActiveMemberConflict ==
  ( /\ last.op \in {"inviteMember", "joinByInviteCode"}
    /\ aboutGroup
    /\ last.target # NoUser
    /\ isUserFamilyMember(last.target, pre[last.gid]) )
  => (last.status = 409 /\ groups = pre)

\* C14: whenever a saved request turns an entry from inactive to active, by
\* inviteMember, joinByInviteCode or updateMember with isActive true, the
\* joinedAt of that entry is the time of that request.
ReactivationStampsJoinedAt ==
  last.status = 200 =>
    \A g \in DOMAIN pre : \A i \in DOMAIN pre[g].members :
      (~pre[g].members[i].isActive /\ groups[g].members[i].isActive)
        => groups[g].members[i].joinedAt = savedAt

\* C15: updateMember and updateFamilyGroup are answered 200 only to the
\* adminId user of the group; every other actor, an active member with role
\* admin too, gets 403 and the collection is unchanged.
OnlyAdminIdUpdates ==
  ( /\ last.op \in {"updateMember", "updateFamilyGroup"}
    /\ aboutGroup )
  => /\ last.status = 200 => last.actor = pre[last.gid].adminId
     /\ last.actor # pre[last.gid].adminId => (last.status = 403 /\ groups = pre)

\* C15 witness: an active member with role admin who is not the adminId user
\* asked for an updateMember and got 403.
AdminRoleAloneForbiddenSeen ==
  /\ last.op = "updateMember"
  /\ last.status = 403
  /\ last.actor \in activeAdmins(pre[last.gid].members)
  /\ last.actor # pre[last.gid].adminId

\* C16: removeMember for an existing entry, by an actor who is neither the
\* adminId user nor the target, is answered 403 and the collection is
\* unchanged; an actor other than the adminId user deactivates only an entry
\* of their own.
RemoveByOthersForbidden ==
  ( /\ last.op = "removeMember"
    /\ aboutGroup
    /\ ~noEntry(pre[last.gid].members, last.target) )
  => /\ (last.actor # pre[last.gid].adminId /\ last.actor # last.target)
          => (last.status = 403 /\ groups = pre)
     /\ (last.status = 200 /\ last.actor # pre[last.gid].adminId)
          => \A i \in DOMAIN pre[last.gid].members :
               groups[last.gid].members[i] # pre[last.gid].members[i]
                 => pre[last.gid].members[i].userId = last.actor

\* C16 witness: an active member asked to remove the adminId user and got 403.
RemoveOfOtherForbiddenSeen ==
  /\ last.op = "removeMember"
  /\ last.status = 403
  /\ isUserFamilyMember(last.actor, pre[last.gid])
  /\ last.target = pre[last.gid].adminId

\* the role of the entry inviteMember takes for the actor's: the first active
\* one
invitingRole(members, actor) ==
  LET mine(i) == members[i].userId = actor /\ members[i].isActive
  IN members[CHOOSE i \in DOMAIN members :
               mine(i) /\ \A j \in DOMAIN members : mine(j) => i <= j].role

\* C17: inviteMember is answered 403 with the collection unchanged when the
\* actor has no active entry in the group, and when the actor's role is not
\* admin and allowMemberInvites is false; an active member with role admin is
\* not refused, whatever the setting.
InvitePermission ==
  (last.op = "inviteMember" /\ aboutGroup) =>
    LET g == pre[last.gid]
        active == isUserFamilyMember(last.actor, g)
    IN /\ ~active => (last.status = 403 /\ groups = pre)
       /\ ( /\ active
            /\ invitingRole(g.members, last.actor) # "admin"
            /\ ~g.settings.allowMemberInvites )
          => (last.status = 403 /\ groups = pre)
       /\ (active /\ invitingRole(g.members, last.actor) = "admin")
          => last.status # 403

\* C17 witness: with allowMemberInvites false an active member with role
\* member asked to invite and got 403.
MemberInviteForbiddenSeen ==
  /\ last.op = "inviteMember"
  /\ last.status = 403
  /\ isUserFamilyMember(last.actor, pre[last.gid])
  /\ ~pre[last.gid].settings.allowMemberInvites

\* one step keeps every group, every roster at least as long, and every
\* userId of every roster; a removeMember or leaveFamilyGroup answered 200
\* changes at most the isActive of one entry of the target, to false
RosterStep ==
  /\ \A g \in DOMAIN groups :
       /\ g \in DOMAIN groups'
       /\ Len(groups'[g].members) >= Len(groups[g].members)
       /\ \A i \in DOMAIN groups[g].members :
            \E j \in DOMAIN groups'[g].members :
              groups'[g].members[j].userId = groups[g].members[i].userId
  /\ (last'.op \in {"removeMember", "leaveFamilyGroup"} /\ last'.status = 200)
       => \E i \in DOMAIN groups[last'.gid].members :
            /\ groups[last'.gid].members[i].userId = last'.target
            /\ groups' = [groups EXCEPT ![last'.gid].members[i].isActive = FALSE]

\* C18: roster entries are never deleted: over any sequence of completed
\* requests no roster gets shorter and every userId stays in it; removeMember
\* and leaveFamilyGroup only set isActive of the target false and leave its
\* role and joinedAt.
RosterEntriesKept == [][RosterStep]_vars

\* C18 witness: an admin of a roster of two was removed and the entry is
\* still there, inactive, with role admin.
RemovedAdminKeepsRoleSeen ==
  /\ last.op = "removeMember"
  /\ last.status = 200
  /\ Len(groups[last.gid].members) = 2
  /\ \E i \in DOMAIN groups[last.gid].members :
       /\ groups[last.gid].members[i].userId = last.target
       /\ groups[last.gid].members[i].role = "admin"
       /\ ~groups[last.gid].members[i].isActive
       /\ pre[last.gid].members[i].isActive

\* a roster without its joinedAt
rolesOf(members) ==
  [i \in DOMAIN members |->
     <<members[i].userId, members[i].role, members[i].isActive>>]

\* C19: A creates a group and is its only active admin; A invites B, who is
\* an active member; A's updateMember making A a member is answered 400;
\* A's updateMember making B an admin is answered 200; A's updateMember
\* making A a member is then answered 200 and the roster is A member active,
\* B admin active, with one active admin.
ScenarioOutcome ==
  /\ scen = 1 =>
       /\ last.op # "none" => last.status = 201
       /\ rolesOf(groups[1].members) = << <<"A", "admin", TRUE>> >>
  /\ scen = 2 =>
       /\ last.op # "none" => last.status = 200
       /\ rolesOf(groups[1].members) =
            << <<"A", "admin", TRUE>>, <<"B", "member", TRUE>> >>
  /\ scen = 3 =>
       /\ last.op # "none" => (last.status = 400 /\ groups = pre)
       /\ rolesOf(groups[1].members) =
            << <<"A", "admin", TRUE>>, <<"B", "member", TRUE>> >>
  /\ scen = 4 =>
       /\ last.op # "none" => last.status = 200
       /\ rolesOf(groups[1].members) =
            << <<"A", "admin", TRUE>>, <<"B", "admin", TRUE>> >>
  /\ scen = 5 =>
       /\ last.op # "none" => last.status = 200
       /\ rolesOf(groups[1].members) =
            << <<"A", "member", TRUE>>, <<"B", "admin", TRUE>> >>
       /\ adminCount(groups[1].members) = 1

\* C19 witness: the five requests of the scenario have been answered.
ScenarioCompletedSeen ==
  /\ scen = 5
  /\ last.op = "updateMember"
  /\ last.status = 200

\* C20: getFamilyGroupById answers 404 when no group has the id and 403 when
\* the caller has no active entry in the group, and 200 only to a caller
\* with an active entry.
GetGroupErrorKinds ==
  last.op = "getFamilyGroupById" =>
    /\ ~aboutGroup => last.status = 404
    /\ (aboutGroup /\ ~isUserFamilyMember(last.actor, pre[last.gid]))
         => last.status = 403
    /\ last.status = 200
         => (aboutGroup /\ isUserFamilyMember(last.actor, pre[last.gid]))

\* C21: no roster holds two active entries with the same userId, whatever
\* completed requests came before.
NoTwoActiveEntries ==
  \A g \in DOMAIN groups :
    \A i, j \in DOMAIN groups[g].members :
      ( /\ groups[g].members[i].userId = groups[g].members[j].userId
        /\ groups[g].members[i].isActive
        /\ groups[g].members[j].isActive )
      => i = j

\* C22: no request changes the inviteCode or the adminId of a stored group:
\* not updateFamilyGroup, whatever keys its body carries, nor inviteMember,
\* joinByInviteCode, updateMember, removeMember or leaveFamilyGroup.
CodeAndAdminIdKept ==
  \A g \in DOMAIN pre :
    /\ g \in DOMAIN groups
    /\ groups[g].inviteCode = pre[g].inviteCode
    /\ groups[g].adminId = pre[g].adminId

\* C22 witness: an updateFamilyGroup whose body carried an adminId and an
\* inviteCode was saved.
UpdateWithOtherKeysSeen ==
  /\ last.op = "updateFamilyGroup"
  /\ last.status = 200
  /\ last.body.other.given = {"adminId", "inviteCode"}
  /\ last.body.other.adminId # pre[last.gid].adminId
  /\ last.body.other.inviteCode # pre[last.gid].inviteCode

\* C27: every updateFamilyGroup, updateMember and removeMember that succeeds
\* was sent by a user who had an active roster entry in that group when the
\* request was handled.
AdminActsAsActiveMember ==
  ( /\ last.op \in {"updateFamilyGroup", "updateMember", "removeMember"}
    /\ last.status = 200 )
  => actorWasActive

\* C28: an updateFamilyGroup that succeeds leaves every settings flag its
\* body does not give at the stored value; without a settings object in the
\* body no flag changes.
UnspecifiedFlagsKept ==
  ( /\ last.op = "updateFamilyGroup"
    /\ last.status = 200 )
  => \A f \in Flags :
       (~last.body.hasSettings \/ f \notin last.body.settings.given)
       => groups[last.gid].settings[f] = pre[last.gid].settings[f]

\* the groups in which the user has an active roster entry
groupsOfActive(userId) ==
  {g \in DOMAIN groups :
     \E i \in DOMAIN groups[g].members :
       /\ groups[g].members[i].userId = userId
       /\ groups[g].members[i].isActive}

\* C29: getUserFamilyGroups lists a group exactly when the caller has an
\* active roster entry in it; a group where the caller's only entry is
\* inactive is not listed, whoever else is active in it.
ListedIffActiveMember ==
  ( /\ last.op = "getUserFamilyGroups"
    /\ last.status = 200 )
  => DOMAIN last.data = groupsOfActive(last.actor)

\* the role stored in the first roster entry of that user, "none" without one
storedRole(g, userId) ==
  LET i == findMember(groups[g].members, userId) IN
  IF i = 0 THEN "none" ELSE groups[g].members[i].role

\* C30: whatever role changes, removals and re-joins came before, each group
\* reported by getUserFamilyGroups or getFamilyGroupById, and the response of
\* joinByInviteCode, says isAdmin exactly when it says userRole 'admin', and
\* its userRole is the role stored in the caller's roster entry.
ReportedRoleIsStoredRole ==
  /\ ( last.op = "getUserFamilyGroups" /\ last.status = 200 )
     => \A g \in DOMAIN last.data :
          /\ last.data[g].isAdmin <=> last.data[g].userRole = "admin"
          /\ last.data[g].userRole = storedRole(g, last.actor)
  /\ ( last.op \in {"getFamilyGroupById", "joinByInviteCode"} /\ last.status = 200 )
     => /\ last.isAdmin <=> last.userRole = "admin"
        /\ last.userRole = storedRole(last.gid, last.actor)

\* C24: no user is the adminId of two stored groups, also when two
\* createFamilyGroup requests of one user both run the findOne by adminId
\* before either saves.
OneGroupPerAdmin ==
  \A g, h \in DOMAIN groups : g # h => groups[g].adminId # groups[h].adminId

saver == reqs[last.slot]

\* the save just taken was of a request in which an admin leaves or removes
\* their own entry, loaded when the roster had two active admins and saved
\* when that entry was the only active admin left, no push in between
leaveOnStaleCopy ==
  /\ last.slot \in Racers
  /\ last.op \in {"leaveFamilyGroup", "removeMember"}
  /\ last.target = last.actor
  /\ adminCount(saver.copy.members) = 2
  /\ adminCount(pre[1].members) = 1
  /\ LET member == findMember(saver.copy.members, last.actor) IN
       /\ pre[1].members[member].role = "admin"
       /\ pre[1].members[member].isActive
  /\ versionOf(pre[1]) = versionOf(saver.copy)

\* C25: of two admins who leave (or remove themselves) at the same time, each
\* having loaded the roster while both were active, the second to save is
\* answered 200 like the first, and the group is left without an active admin.
RacingLeavesBothSucceed ==
  leaveOnStaleCopy
  => /\ last.status = 200
     /\ adminCount(groups[1].members) = 0

\* C25 witness: two leaveFamilyGroup requests, both loaded with two active
\* admins, were both answered 200 and no active admin is stored.
NoAdminAfterRacingLeavesSeen ==
  /\ leaveOnStaleCopy
  /\ last.op = "leaveFamilyGroup"
  /\ last.status = 200
  /\ adminCount(groups[1].members) = 0
  /\ \E r \in Racers \ {last.slot} :
       /\ reqs[r].op = "leaveFamilyGroup"
       /\ reqs[r].pc = "done"
       /\ reqs[r].status = 200
       /\ adminCount(reqs[r].copy.members) = 2

writes(field, value) ==
  CASE last.op \in {"removeMember", "leaveFamilyGroup"} ->
         field = "isActive" /\ value = FALSE
    [] last.op = "updateMember" ->
         \/ field = "role" /\ last.body.hasRole /\ value = last.body.role
         \/ field = "isActive" /\ last.body.hasActive /\ value = last.body.isActive
    [] OTHER -> (field = "isActive" /\ value = TRUE) \/ field = "joinedAt"

====
